---- MODULE Spec2Model ----
(***************************************************************************)
(* A model of json.c: the tokenizer (lex, advance), the text helpers       *)
(* (parse_charseq, parse_string, parse_string_nodquotes, parse_number),    *)
(* the array sub-parser (parse_array), the builder loop of JSON_parse and  *)
(* the release walker (do_free, do_free_value_array, JSON_free).           *)
(*                                                                         *)
(* The input buffer is a sequence of one-character strings, ptr is an      *)
(* index into it (1 is the start, Len(buf)+1 is the end).  Heap objects    *)
(* are numbered in allocation order.  The payload cell that a value's      *)
(* `value` field designates is modelled as a field of the value itself:    *)
(* VALUE_CAST(v,t) = x stores x in it, VALUE_CAST(v,t) reads it.           *)
(***************************************************************************)
EXTENDS Integers, Sequences, FiniteSets, TLC

(* ------------------------------ characters ----------------------------- *)
CR == "\r"
NL == "\n"
TAB == "\t"
LBRACE == "{"
RBRACE == "}"
LBRACK == "["
RBRACK == "]"
DQUOTE == "\""
COMMA == ","
SPACE == " "
BACKSLASH == "\\"
\* the byte that ends a C string, and what memory around the buffer reads as
NUL == "NUL"

IS_CRNL(p) == p = CR \/ p = NL
IS_CNTRLSPACE(p) == IS_CRNL(p) \/ p = TAB

Digits == <<"0", "1", "2", "3", "4", "5", "6", "7", "8", "9">>
isdigit(c) == \E i \in 1..10 : Digits[i] = c
DigitValue(c) == (CHOOSE i \in 1..10 : Digits[i] = c) - 1

(* -------------------------------- tokens ------------------------------- *)
TOK_NONE == -1
TOK_SPACE == 0
TOK_LBRACE == 1
TOK_RBRACE == 2
TOK_LBRACK == 3
TOK_RBRACK == 4
TOK_DQUOTE == 5
TOK_COMMA == 6
TOK_CHARSEQ == 7
TOK_DIGIT == 8
\* used by the builder and by parse_array, absent from the token enum and
\* from the switch of lex: they are codes that lex never returns
TOK_COLON == 9
TOK_MINUS == 10
TOK_ARRAY == 11

(* ----------------------------- value types ----------------------------- *)
VALUE_STRING == 0
VALUE_NULL == 1
VALUE_BOOLEAN == 2
VALUE_NUMBER == 3
VALUE_FLOAT == 4
VALUE_DOUBLE == 5
VALUE_ARRAY == 6
VALUE_OBJECT == 7
\* a field of a heap block that was never written
UNINIT == -1

NULL == 0

(* 0xdeadbeef stored in an int *)
ARRAY_END_SENTINEL == -559038737
INT_MAX == 2147483647

STACK_MAX_SIZE == 256

(* ------------------------------- the lexer ----------------------------- *)
\* *p for a cursor p over buffer b; pre is the byte in front of the buffer
At(b, pre, p) ==
    IF p \in 1..Len(b) THEN b[p]
    ELSE IF p = 0 THEN pre
    ELSE NUL

RECURSIVE SkipCntrl(_, _)
SkipCntrl(b, p) ==
    IF p \in 1..Len(b) /\ IS_CNTRLSPACE(b[p]) THEN SkipCntrl(b, p + 1) ELSE p

RECURSIVE SkipSpace(_, _)
SkipSpace(b, p) ==
    IF p \in 1..Len(b) /\ b[p] = SPACE THEN SkipSpace(b, p + 1) ELSE p

\* the switch of lex on the character c
Classify(c) ==
    CASE c = DQUOTE -> TOK_DQUOTE
      [] c = LBRACE -> TOK_LBRACE
      [] c = RBRACE -> TOK_RBRACE
      [] c = LBRACK -> TOK_LBRACK
      [] c = RBRACK -> TOK_RBRACK
      [] c = SPACE -> TOK_SPACE
      [] OTHER -> IF isdigit(c) THEN TOK_DIGIT ELSE TOK_CHARSEQ

\* the cases of the switch that step over the character
Consumed(tok) ==
    tok \in {TOK_DQUOTE, TOK_LBRACE, TOK_RBRACE, TOK_LBRACK, TOK_RBRACK, TOK_SPACE}

\* the cursor after the run of spaces that lex skips at p1, where the control
\* characters end: only a run that follows a CR or NL is skipped
AfterIndent(b, pre, p1) ==
    IF At(b, pre, p1) = SPACE /\ IS_CRNL(At(b, pre, p1 - 1)) THEN SkipSpace(b, p1) ELSE p1

\* the switch of lex, taken at p2; p..p2 and (before a space) p1 - 1 were read
lex_switch(b, pre, p, p1, p2) ==
    [tok |-> Classify(At(b, pre, p2)),
     ptr |-> IF Consumed(Classify(At(b, pre, p2))) THEN p2 + 1 ELSE p2,
     reads |-> (p..p2) \cup (IF At(b, pre, p1) = SPACE THEN {p1 - 1} ELSE {})]

lex_from(b, pre, p, p1) == lex_switch(b, pre, p, p1, AfterIndent(b, pre, p1))

\* lex(): the token at the cursor, the cursor after it, and the positions read
lex(b, pre, p) == lex_from(b, pre, p, SkipCntrl(b, p))

(* ------------------------------- the inputs ---------------------------- *)
MaxLen == 3
MaxMembers == 2
MaxElems == 2
\* how many turns of the builder loop in a row may leave the cursor in place
MaxSpin == 3

Q(t) == <<DQUOTE>> \o t \o <<DQUOTE>>
Sp(spaced) == IF spaced THEN <<SPACE>> ELSE <<>>

\* every sequence over S of length at most n
RECURSIVE SeqsUpTo(_, _)
SeqsUpTo(S, n) ==
    IF n = 0 THEN {<<>>}
    ELSE LET T == SeqsUpTo(S, n - 1)
         IN  T \cup {Append(t, x) : t \in {u \in T : Len(u) = n - 1}, x \in S}

\* the members xs joined by commas between the brackets open and close
RECURSIVE Joined(_, _)
Joined(xs, spaced) ==
    IF xs = <<>> THEN <<>>
    ELSE IF Len(xs) = 1 THEN xs[1]
    ELSE xs[1] \o <<COMMA>> \o Sp(spaced) \o Joined(Tail(xs), spaced)

Bracketed(open, xs, close, spaced) ==
    IF xs = <<>> THEN <<open, close>>
    ELSE <<open>> \o Sp(spaced) \o Joined(xs, spaced) \o Sp(spaced) \o <<close>>

Member(k, v, spaced) == Q(k) \o Sp(spaced) \o <<":">> \o Sp(spaced) \o v

Keys == {<<"a">>, <<"b">>}
Texts == {<<"x">>, <<"y", "z">>}

\* the flat objects of string-valued members: ms is a sequence of <<key, text>>
FlatDoc(ms, spaced) ==
    Bracketed(LBRACE, [i \in 1..Len(ms) |-> Member(ms[i][1], Q(ms[i][2]), spaced)],
              RBRACE, spaced)
FlatMembers == SeqsUpTo(Keys \X Texts, MaxMembers)
FlatDocs == {FlatDoc(ms, sp) : ms \in FlatMembers, sp \in BOOLEAN}

\* the objects with one member, an array of scalars: es are the elements' texts
ArrayText(es, spaced) == Bracketed(LBRACK, es, RBRACK, spaced)
ArrayDoc(es, spaced) ==
    Bracketed(LBRACE, <<Member(<<"a">>, ArrayText(es, spaced), spaced)>>, RBRACE, spaced)
Marker == <<"3", "7", "3", "5", "9", "2", "8", "5", "5", "9">>
Scalars == {Q(<<"x">>), <<"7">>, <<"t", "r", "u", "e">>, <<"-", "4", "2">>, Marker}
ArrayElems == SeqsUpTo(Scalars, MaxElems)
\* the same with one space after the colon and none anywhere else
TightArrayDoc(es) ==
    <<LBRACE>> \o Q(<<"a">>) \o <<":", SPACE>> \o ArrayText(es, FALSE) \o <<RBRACE>>
ArrayDocs ==
    {ArrayDoc(es, sp) : es \in ArrayElems, sp \in BOOLEAN}
        \cup {TightArrayDoc(es) : es \in ArrayElems}

\* arrays with an element that is itself an array or an object
Nesting == {<<LBRACK, RBRACK>>, <<LBRACE, RBRACE>>}
NestingElems ==
    UNION {{<<e>>, <<e, Q(<<"x">>)>>, <<Q(<<"x">>), e>>} : e \in Nesting}
NestingDocs == {TightArrayDoc(es) : es \in NestingElems}

\* the objects with one member whose value is a scalar or an object
ValueDocs ==
    {Bracketed(LBRACE, <<Member(<<"a">>, v, sp)>>, RBRACE, sp) :
        v \in Scalars \cup {<<"n", "u", "l", "l">>, <<"{", "}">>}, sp \in BOOLEAN}

\* one member whose value is a bare word, followed at once by the closing
\* brace or by a newline
BareWords == {<<"t", "r", "u", "e">>, <<"n", "u", "l", "l">>}
TightValueDoc(v) == <<LBRACE>> \o Q(<<"a">>) \o <<":", SPACE>> \o v \o <<RBRACE>>
LineValueDoc(v) == <<LBRACE, NL, TAB>> \o Member(<<"a">>, v, TRUE) \o <<NL, RBRACE>>
BareDocs == {TightValueDoc(w) : w \in BareWords} \cup {LineValueDoc(w) : w \in BareWords}

\* the sequence s repeated k times
Repeat(s, k) == [i \in 1..(k * Len(s)) |-> s[((i - 1) % Len(s)) + 1]]

\* objects nested depth deep inside the root, each the only member "a" of the
\* one around it, the innermost holding a string
NestedDoc(depth, spaced) ==
    Repeat(<<LBRACE>> \o Sp(spaced) \o Q(<<"a">>) \o Sp(spaced) \o <<":">> \o Sp(spaced),
           depth + 1)
        \o Q(<<"x">>)
        \o Repeat(Sp(spaced) \o <<RBRACE>>, depth + 1)
\* a nested object followed by a further member of the enclosing object
NestedThen(spaced) ==
    Bracketed(LBRACE,
              <<Member(<<"a">>, NestedDoc(0, spaced), spaced),
                Member(<<"b">>, Q(<<"y">>), spaced)>>,
              RBRACE, spaced)
NestedDocs ==
    {NestedDoc(k, sp) : k \in {1, 2, STACK_MAX_SIZE, STACK_MAX_SIZE + 1}, sp \in BOOLEAN}
        \cup {NestedThen(sp) : sp \in BOOLEAN}

\* json_data of main
MainDoc ==
    <<LBRACE, NL, TAB, DQUOTE, "i", "t", "e", "m", "1", DQUOTE, SPACE, ":", SPACE,
      DQUOTE, "v", "a", "l", "u", "e", "1", DQUOTE, NL, TAB, DQUOTE, "i", "t", "e",
      "m", "2", DQUOTE, SPACE, ":", SPACE, DQUOTE, "v", "a", "l", "u", "e", "2",
      DQUOTE, NL, TAB, DQUOTE, "i", "t", "e", "m", "3", DQUOTE, SPACE, ":", SPACE,
      LBRACE, NL, TAB, TAB, DQUOTE, "s", "u", "b", "1", DQUOTE, SPACE, ":", SPACE,
      DQUOTE, "s", "u", "b", "v", "a", "l", "u", "e", "1", DQUOTE, NL, TAB, TAB,
      DQUOTE, "s", "u", "b", "2", DQUOTE, SPACE, ":", SPACE, DQUOTE, "s", "u", "b",
      "v", "a", "l", "u", "e", "2", DQUOTE, NL, TAB, RBRACE, NL, TAB, DQUOTE, "i", "t",
      "e", "m", "4", DQUOTE, SPACE, ":", SPACE, LBRACK, SPACE, DQUOTE, "f", "i", "r",
      "s", "t", DQUOTE, COMMA, SPACE, DQUOTE, "s", "e", "c", "o", "n", "d", DQUOTE,
      COMMA, SPACE, DQUOTE, "t", "h", "i", "r", "d", DQUOTE, COMMA, SPACE, DQUOTE, "f",
      "o", "u", "r", "t", "h", DQUOTE, SPACE, RBRACK, NL, RBRACE>>

\* documents laid out over lines as the one in main, members on lines of
\* their own without commas
Lines ==
    {MainDoc,
     <<LBRACE, NL, TAB>> \o Member(<<"a">>, Q(<<"x">>), TRUE) \o <<NL, RBRACE>>,
     <<LBRACE, NL, TAB>> \o Member(<<"a">>, Q(<<"x">>), TRUE) \o <<NL, TAB>>
        \o Member(<<"b">>, Q(<<"y">>), TRUE) \o <<NL, RBRACE>>,
     <<LBRACE, NL, TAB>> \o Member(<<"a">>, Q(<<"x">>), TRUE) \o <<NL, TAB>>
        \o Member(<<"b">>, ArrayText(<<Q(<<"x">>), Q(<<"y">>)>>, TRUE), TRUE)
        \o <<NL, RBRACE>>,
     <<LBRACE, RBRACE, NL>>,
     <<LBRACE, NL, SPACE, SPACE, TAB, RBRACE>>}

Alphabet == {LBRACE, RBRACE, DQUOTE, COMMA, SPACE, "a", "1"}
Short == SeqsUpTo(Alphabet, MaxLen) \ {<<>>}

Inputs == FlatDocs \cup ArrayDocs \cup NestingDocs \cup ValueDocs \cup BareDocs \cup NestedDocs \cup Lines \cup Short

\* the documents handed to a second call of JSON_parse
Again ==
    {FlatDoc(<<<<<<"a">>, <<"x">>>>>>, TRUE), NestedDoc(1, TRUE), <<LBRACE, RBRACE>>}
MaxCalls == 2
\* how deep a result is compared
MaxDepth == 4

\* what the byte in front of the buffer can be, where lex looks at it
PreBytes(d) == IF d[1] = SPACE THEN {NL, NUL} ELSE {NUL}

(* ------------------------------- the state ----------------------------- *)
VARIABLES
    ndebug,     \* the build defines NDEBUG: assert() expands to nothing
    ilp32,      \* the build has a 32-bit long: strtol saturates at INT_MAX
    pre,        \* the byte in memory just before the buffer
    buf,        \* json_data, without its terminating NUL
    ptr, current, lookahead,
    node, parent, value, state, stack, stack_idx, minus, jn,
    heap,       \* the allocator and the contents of every block
    oob,        \* a byte outside [start, end) has been read
    released,   \* what JSON_free did: see Release
    spin,       \* the turns of the builder loop since the cursor last moved
    call,       \* the calls of JSON_parse so far: see Called
    pc, fatal

lexvars == <<ptr, current, lookahead, oob>>
buildvars == <<node, parent, value, state, stack, stack_idx, minus, jn>>
envvars == <<ndebug, ilp32, pre, buf, call>>
vars == <<envvars, lexvars, buildvars, heap, released, spin, pc, fatal>>

end == Len(buf) + 1

\* the lexer's registers, as one record for the helpers to pass along
Cx == [ptr |-> ptr, current |-> current, lookahead |-> lookahead, oob |-> oob]

\* the registers cx after lex returned r
Shift(b, cx, r) ==
    [ptr |-> r.ptr, current |-> cx.lookahead, lookahead |-> r.tok,
     oob |-> cx.oob \/ (r.reads \ (1..Len(b)) # {})]

advance(b, p, cx) == Shift(b, cx, lex(b, p, cx.ptr))

matches(cx, tok) == cx.lookahead = tok

(* ---------------------------- the text helpers ------------------------- *)
\* memchr(ptr, c, end - ptr): the first position in [p, end) holding c, or NULL
memchr(b, p, c) ==
    LET hits == {i \in p..Len(b) : b[i] = c}
    IN  IF hits = {} THEN NULL ELSE CHOOSE i \in hits : \A j \in hits : i <= j

\* the closing quote parse_charseq stops at: a quote not preceded by a backslash
RECURSIVE ClosingQuote(_, _, _)
ClosingQuote(b, p, q) ==
    LET m == memchr(b, q, DQUOTE)
    IN  IF m = NULL THEN NULL
        ELSE IF At(b, p, m - 1) = BACKSLASH THEN ClosingQuote(b, p, m + 1)
        ELSE m

\* parse_charseq() once the closing quote q is found: charseq is the text
\* from s up to it and cx1 the registers after the advance()
charseq_at(b, nd, s, q, cx1) ==
    [crash |-> IF ~nd /\ ~matches(cx1, TOK_DQUOTE)
               THEN "assert(matches(TOK_DQUOTE))" ELSE "",
     charseq |-> SubSeq(b, s, q - 1),
     cx |-> cx1]

charseq_to(b, p, nd, cx, q) ==
    IF q = NULL
    THEN [crash |-> "segv", charseq |-> <<>>, cx |-> [cx EXCEPT !.oob = TRUE]]
    ELSE charseq_at(b, nd, cx.ptr, q, advance(b, p, [cx EXCEPT !.ptr = q]))

\* parse_charseq(): charseq and the registers after it; crash when memchr
\* finds no quote and the look-behind dereferences NULL - 1
parse_charseq(b, p, nd, cx) == charseq_to(b, p, nd, cx, ClosingQuote(b, p, cx.ptr))

\* the cursor parse_string_nodquotes stops at: the first comma, space, CR or
\* NL from p on; end + 1 stands for "somewhere past the end", since neither
\* the NUL at the end nor what follows it stops the scan
WordEnd(b, p) ==
    LET stops == {i \in p..Len(b) : b[i] = COMMA \/ b[i] = SPACE \/ IS_CRNL(b[i])}
    IN  IF stops = {} THEN Len(b) + 2 ELSE CHOOSE i \in stops : \A j \in stops : i <= j

\* parse_string_nodquotes(): strncpy stops at the buffer's NUL
parse_string_nodquotes(b, cx) ==
    LET s == cx.ptr
        e == WordEnd(b, s)
    IN  [charseq |-> SubSeq(b, s, IF e > Len(b) THEN Len(b) ELSE e - 1),
         cx |-> [cx EXCEPT !.ptr = e, !.oob = @ \/ e > Len(b)]]

RECURSIVE DigitsEnd(_, _)
DigitsEnd(b, p) ==
    IF p \in 1..Len(b) /\ isdigit(b[p]) THEN DigitsEnd(b, p + 1) ELSE p

\* atoi() of a digit run, kept as two 16-bit halves of the 32-bit result;
\* big records that the value passed INT_MAX
RECURSIVE atoi_acc(_, _, _, _)
atoi_acc(ds, hi, lo, big) ==
    IF ds = <<>> THEN [hi |-> hi, lo |-> lo, big |-> big]
    ELSE LET l == lo * 10 + DigitValue(Head(ds))
             h == hi * 10 + (l \div 65536)
         IN  atoi_acc(Tail(ds), h % 65536, l % 65536, big \/ h >= 32768)

atoi(ds, ilp) ==
    LET r == atoi_acc(ds, 0, 0, FALSE)
    IN  IF r.big /\ ilp THEN INT_MAX
        ELSE IF r.hi >= 32768 THEN (r.hi - 65536) * 65536 + r.lo
        ELSE r.hi * 65536 + r.lo

\* parse_number(): the loop reads the byte that stops it
parse_number(b, ilp, cx) ==
    LET s == cx.ptr
        e == DigitsEnd(b, s)
    IN  [val |-> atoi(SubSeq(b, s, e - 1), ilp),
         cx |-> [cx EXCEPT !.ptr = e, !.oob = @ \/ e > Len(b)]]

string_type(str) ==
    IF str = <<"t", "r", "u", "e">> \/ str = <<"f", "a", "l", "s", "e">>
    THEN VALUE_BOOLEAN ELSE VALUE_NULL

\* sprintf("%d", n) for n >= 0
RECURSIVE itoa(_)
itoa(n) == IF n < 10 THEN <<Digits[n + 1]>> ELSE itoa(n \div 10) \o <<Digits[(n % 10) + 1]>>

(* -------------------------------- the heap ----------------------------- *)
\* heap.n blocks have been allocated so far, heap.live are those not yet
\* released; kind says what a block is and json, node, val, text, seq, arr hold
\* the contents of the blocks of each kind.  Block sizes are not modelled.
EmptyHeap ==
    [n |-> 0, live |-> {}, kind |-> <<>>, json |-> <<>>, node |-> <<>>,
     val |-> <<>>, text |-> <<>>, seq |-> <<>>, arr |-> <<>>]

malloc(h, k) ==
    [h EXCEPT !.n = h.n + 1, !.live = @ \cup {h.n + 1}, !.kind = @ @@ ((h.n + 1) :> k)]

\* the block the last malloc returned
Last(h) == h.n

strdup(h, str) ==
    LET h1 == malloc(h, "text") IN [h1 EXCEPT !.text = @ @@ (Last(h1) :> str)]

new_node(h) ==
    LET h1 == malloc(h, "node")
    IN  [h1 EXCEPT !.node = @ @@ (Last(h1) :> [name |-> NULL, values |-> NULL, nr_values |-> 0])]

new_value(h) ==
    LET h1 == malloc(h, "value")
    IN  [h1 EXCEPT !.val = @ @@ (Last(h1) :> [type |-> 0, name |-> NULL, value |-> 0])]

JSON_new(h) ==
    LET h1 == malloc(h, "json") IN [h1 EXCEPT !.json = @ @@ (Last(h1) :> [root |-> NULL])]

\* add_value() as it would be without the ++NVALS(parent) that ends it
add_value_uncounted(h, nd, par, v) ==
    IF par = NULL
    THEN [fail |-> IF nd THEN "segv" ELSE "assert(parent)", h |-> h]
    ELSE IF v = NULL /\ ~nd
    THEN [fail |-> "assert(value)", h |-> h]
    ELSE LET first == h.node[par].values = NULL
             h1 == IF first THEN malloc(h, "seq") ELSE h
             blk == IF first THEN Last(h1) ELSE h.node[par].values
             old == IF first THEN <<>> ELSE h.seq[blk]
             n == h.node[par].nr_values
         IN  [fail |-> "",
              h |-> [h1 EXCEPT
                        !.seq = (blk :> [i \in 1..(n + 1) |->
                                            IF i = n + 1 THEN v
                                            ELSE IF i <= Len(old) THEN old[i]
                                            ELSE UNINIT]) @@ @,
                        !.node[par].values = blk]]

\* add_value(): fail is the way it stops, "" when it returns
add_value(h, nd, par, v) ==
    IF par = NULL
    THEN [fail |-> IF nd THEN "segv" ELSE "assert(parent)", h |-> h]
    ELSE IF v = NULL /\ ~nd
    THEN [fail |-> "assert(value)", h |-> h]
    ELSE LET first == h.node[par].values = NULL
             h1 == IF first THEN malloc(h, "seq") ELSE h
             blk == IF first THEN Last(h1) ELSE h.node[par].values
             old == IF first THEN <<>> ELSE h.seq[blk]
             n == h.node[par].nr_values
         IN  [fail |-> "",
              h |-> [h1 EXCEPT
                        !.seq = (blk :> [i \in 1..(n + 1) |->
                                            IF i = n + 1 THEN v
                                            ELSE IF i <= Len(old) THEN old[i]
                                            ELSE UNINIT]) @@ @,
                        !.node[par].values = blk,
                        !.node[par].nr_values = n + 1]]

(* --------------------------- the array sub-parser ---------------------- *)
\* the entry o given the text r that parse_string returned, held by block str
TextElement(tok, o, r, h, str) ==
    IF r.crash # ""
    THEN [crash |-> r.crash, cx |-> r.cx, h |-> h, o |-> o]
    ELSE [crash |-> "", cx |-> r.cx, h |-> strdup(h, r.charseq),
          o |-> [o EXCEPT !.value = str,
                          !.type = IF tok = TOK_DQUOTE THEN VALUE_STRING
                                   ELSE string_type(r.charseq)]]

\* the entry o given the number r that parse_number returned
NumberElement(tok, o, r, h) ==
    [crash |-> "", cx |-> r.cx, h |-> h,
     o |-> [o EXCEPT !.value = IF tok = TOK_MINUS THEN r.val * (-1) ELSE r.val,
                     !.type = VALUE_NUMBER]]

\* the if chain of the loop body of parse_array on entry o, its name stored
FillElement(b, p, nd, ilp, cx, h, o) ==
    IF matches(cx, TOK_DQUOTE) \/ matches(cx, TOK_CHARSEQ)
    THEN TextElement(cx.lookahead, o, parse_charseq(b, p, nd, cx), h, h.n + 1)
    ELSE IF matches(cx, TOK_MINUS) \/ matches(cx, TOK_DIGIT)
    THEN NumberElement(cx.lookahead, o, parse_number(b, ilp, cx), h)
    ELSE IF matches(cx, TOK_ARRAY)
    THEN [crash |-> "abort", cx |-> cx, h |-> h, o |-> o]
    ELSE [crash |-> "", cx |-> cx, h |-> h, o |-> o]

\* one element of the block, as the loop body of parse_array fills it: r.o is
\* the entry, named "#<nr>", r.crash the way the body stops.  The block comes
\* from calloc, which clears the type of entry 0, and grows by realloc.
ArrayElement(b, p, nd, ilp, cx, h, nr) ==
    FillElement(b, p, nd, ilp, cx, strdup(h, <<"#">> \o itoa(nr)),
                [type |-> IF nr = 0 THEN 0 ELSE UNINIT, name |-> h.n + 1, value |-> UNINIT])

\* the end of a turn of the loop: the advance() gave cx2
EndTurn(st, e, cx2) ==
    [st EXCEPT !.cx = cx2, !.h = e.h, !.es = @ \o <<e.o>>,
               !.nr = IF matches(cx2, TOK_RBRACK) THEN @ ELSE @ + 1,
               !.done = matches(cx2, TOK_RBRACK)]

AfterElement(b, p, st, e) ==
    IF e.crash # ""
    THEN [st EXCEPT !.crash = e.crash, !.cx = e.cx, !.h = e.h, !.es = @ \o <<e.o>>,
                    !.done = TRUE]
    ELSE EndTurn(st, e, advance(b, p, e.cx))

\* one turn of the for loop of parse_array: st.es are the entries written so
\* far, st.nr the index of the entry this turn writes; on the closing bracket
\* the loop is left without the increment
parse_array_turn(b, p, nd, ilp, st) ==
    AfterElement(b, p, st, ArrayElement(b, p, nd, ilp, advance(b, p, st.cx), st.h, st.nr))

RECURSIVE parse_array_loop(_, _, _, _, _)
parse_array_loop(b, p, nd, ilp, st) ==
    IF st.done THEN st ELSE parse_array_loop(b, p, nd, ilp, parse_array_turn(b, p, nd, ilp, st))

\* what parse_array returns after the loop ended in r: block a, with the
\* sentinel written over entry nr
parse_array_end(r, a) ==
    [crash |-> r.crash, cx |-> r.cx, arr |-> a,
     h |-> [r.h EXCEPT !.arr = @ @@ (a :>
                IF r.crash # "" THEN r.es
                ELSE [r.es EXCEPT ![r.nr + 1].value = ARRAY_END_SENTINEL,
                                  ![r.nr + 1].name = NULL])]]

\* parse_array(): r.arr is the block it returns
parse_array(b, p, nd, ilp, cx, h) ==
    parse_array_end(
        parse_array_loop(b, p, nd, ilp,
            [crash |-> "", cx |-> cx, h |-> malloc(h, "array"), es |-> <<>>, nr |-> 0,
             done |-> FALSE]),
        h.n + 1)

(* ------------------------------- the result ---------------------------- *)
\* the document below node n as a caller reads it, k levels deep: the values
\* of n in order, each with its name, its tag and what its payload holds
RECURSIVE TreeOf(_, _, _)
PayloadOf(h, v, k) ==
    IF v.type = VALUE_OBJECT THEN TreeOf(h, v.value, k - 1)
    ELSE IF v.type = VALUE_ARRAY
    THEN IF v.value \in DOMAIN h.arr
         THEN [i \in DOMAIN h.arr[v.value] |->
                  LET o == h.arr[v.value][i]
                  IN  [name |-> IF o.name \in DOMAIN h.text THEN h.text[o.name] ELSE <<>>,
                       type |-> o.type,
                       value |-> IF o.value \in DOMAIN h.text THEN h.text[o.value]
                                 ELSE <<o.value>>]]
         ELSE <<>>
    ELSE IF v.value \in DOMAIN h.text THEN h.text[v.value]
    ELSE <<v.value>>

TreeOf(h, n, k) ==
    IF k = 0 \/ n \notin DOMAIN h.node \/ h.node[n].values = NULL THEN <<>>
    ELSE [i \in 1..h.node[n].nr_values |->
             LET q == h.seq[h.node[n].values][i]
             IN  IF q \notin DOMAIN h.val THEN [name |-> <<>>, type |-> UNINIT, value |-> <<>>]
                 ELSE [name |-> IF h.val[q].name \in DOMAIN h.text
                                THEN h.text[h.val[q].name] ELSE <<>>,
                       type |-> h.val[q].type,
                       value |-> PayloadOf(h, h.val[q], k)]]

(* --------------------------- the release walker ------------------------ *)
\* The walker is modelled by the sequence of heap accesses it makes:
\* [op |-> "free", p |-> block] and [op |-> "read", p |-> block].
Free(q) == <<[op |-> "free", p |-> q]>>
Read(q) == <<[op |-> "read", p |-> q]>>

IsText(t) == t \in {VALUE_NULL, VALUE_BOOLEAN, VALUE_STRING}

\* do_free_value_array(): the loop from entry i (1-based) on, then free(arr)
RECURSIVE do_free_value_array_from(_, _, _)
do_free_value_array_from(h, a, i) ==
    LET es == h.arr[a] IN
    IF i > Len(es) THEN Read(UNINIT) \o Free(a)
    ELSE IF es[i].value = ARRAY_END_SENTINEL THEN Free(a)
    ELSE (IF IsText(es[i].type) THEN Free(es[i].value) ELSE <<>>)
         \o do_free_value_array_from(h, a, i + 1)

do_free_value_array(h, a) == Read(a) \o do_free_value_array_from(h, a, 1)

\* do_free(): the loop from value i (0-based) on, then free(root->values)
RECURSIVE do_free_from(_, _, _, _)
do_free_from(h, root, i, nr) ==
    LET n == h.node[root]
        v == h.seq[n.values][i + 1]
        val == h.val[v]
        payload ==
            IF val.type = VALUE_OBJECT
            THEN Read(val.value) \o do_free_from(h, val.value, 0, h.node[val.value].nr_values)
            ELSE IF IsText(val.type) THEN Free(val.value)
            ELSE IF val.type = VALUE_ARRAY THEN do_free_value_array(h, val.value)
            ELSE <<>>
    IN  IF i >= nr THEN Free(n.values)
        ELSE (IF n.name # NULL THEN Free(n.name) ELSE <<>>)
             \o (IF n.values = NULL THEN <<>>
                 ELSE Read(n.values) \o Read(v) \o payload
                      \o (IF val.name # NULL THEN Free(val.name) ELSE <<>>)
                      \o Free(v))
             \o do_free_from(h, root, i + 1, nr)

do_free(h, root) == Read(root) \o do_free_from(h, root, 0, h.node[root].nr_values)

\* JSON_free(): nothing to do for a document without a root
JSON_free(h, j) ==
    Read(j) \o (IF h.json[j].root = NULL THEN <<>> ELSE do_free(h, h.json[j].root))

\* The effect of the accesses evs on the allocator, which held the blocks
\* live before them: live are the blocks still allocated, twice the blocks
\* released when they were not (or no longer) allocated, stale the blocks read
\* when they were not (or no longer) allocated, wild says that something no
\* allocation returned was released or read.  free(NULL) does nothing.
Frees(evs, q) == {i \in 1..Len(evs) : evs[i].op = "free" /\ evs[i].p = q}
Reads(evs, q) == {i \in 1..Len(evs) : evs[i].op = "read" /\ evs[i].p = q}
Touched(evs) == {evs[i].p : i \in 1..Len(evs)} \ {NULL, UNINIT}

Release(evs, live) ==
    [live |-> {q \in live : Frees(evs, q) = {}},
     twice |-> {q \in Touched(evs) :
                   \/ Cardinality(Frees(evs, q)) >= 2
                   \/ (q \notin live /\ Frees(evs, q) # {})},
     stale |-> {q \in Touched(evs) :
                   \/ (q \notin live /\ Reads(evs, q) # {})
                   \/ \E i \in Reads(evs, q) : \E j \in Frees(evs, q) : j < i},
     wild |-> \E i \in 1..Len(evs) : evs[i].p = UNINIT]

NothingReleased == [twice |-> {}, stale |-> {}, wild |-> FALSE]

(* ------------------------------- JSON_parse ---------------------------- *)
GETTING_VALUE == state = 1
TOGGLE_STATE == (state + 1) % 2

\* an assert(cond) that stops the program.  fatal names the way the program
\* stopped: the assertion that failed, "abort", "segv" for an access through
\* NULL or outside the mapped memory, "overflow" and "underflow" for a write
\* past the stack and a read in front of it
Failed(cond) == ~ndebug /\ ~cond

\* the iteration ends in the advance() after the switch
Continue(cx, h) ==
    LET cx1 == advance(buf, pre, cx)
    IN  /\ ptr' = cx1.ptr /\ current' = cx1.current /\ lookahead' = cx1.lookahead
        /\ oob' = cx1.oob
        /\ heap' = h
        /\ spin' = IF cx1.ptr = ptr THEN spin + 1 ELSE 0
        /\ pc' = "loop" /\ fatal' = ""

\* the iteration ends the program
Stop(kind, cx, h) ==
    /\ ptr' = cx.ptr /\ current' = cx.current /\ lookahead' = cx.lookahead
    /\ oob' = cx.oob
    /\ heap' = h
    /\ spin' = spin
    /\ pc' = "fatal" /\ fatal' = kind

InLoop == pc = "loop" /\ ptr < end

\* the prologue of JSON_parse, up to the while loop; CLEAR_STACK clears
\* STACK_MAX_SIZE * sizeof(json_node_t) bytes from stack on, which is more
\* than stack holds: when overrun, the statics laid out after it are cleared
Prologue(d, pr, overrun) ==
    /\ buf' = d /\ pre' = pr
    /\ UNCHANGED <<ndebug, ilp32>>
    /\ LET h1 == JSON_new(heap)
           h2 == new_node(h1)
           root == Last(h2)
           h3 == strdup(h2, <<"r", "o", "o", "t">>)
           h4 == [h3 EXCEPT !.json[Last(h1)].root = root,
                            !.node[root].name = Last(h3)]
           cx0 == [ptr |-> 1, current |-> current, lookahead |-> lookahead, oob |-> oob]
           cx1 == advance(d, pr, cx0)
           cx2 == advance(d, pr, cx1)
       IN  /\ jn' = Last(h1)
           /\ heap' = h4
           /\ stack' = [i \in 0..(STACK_MAX_SIZE - 1) |-> NULL]
           /\ IF overrun
              THEN /\ parent' = NULL /\ node' = NULL /\ value' = NULL
                   /\ state' = 0 /\ stack_idx' = 0
              ELSE /\ parent' = root
                   /\ UNCHANGED <<node, value, state, stack_idx>>
           /\ minus' = 0
           /\ released' = released
           /\ spin' = 0
           /\ IF Failed(matches(cx1, TOK_LBRACE))
              THEN /\ ptr' = cx1.ptr /\ current' = cx1.current
                   /\ lookahead' = cx1.lookahead /\ oob' = cx1.oob
                   /\ pc' = "fatal" /\ fatal' = "assert(matches(TOK_LBRACE))"
              ELSE /\ ptr' = cx2.ptr /\ current' = cx2.current
                   /\ lookahead' = cx2.lookahead /\ oob' = cx2.oob
                   /\ pc' = "loop" /\ fatal' = ""

\* what call records of a call of JSON_parse: nr, how many calls there have
\* been; doc and tree, the text and the result of the call before it (the tree
\* is kept when the same text is parsed again); state and stack_idx, as the
\* builder loop of this call finds them
Called(nr, doc, tree) ==
    [nr |-> nr, doc |-> doc, tree |-> tree, state |-> state', stack_idx |-> stack_idx']

\* the first call of JSON_parse of the program
JSON_parse(d, pr, overrun) ==
    /\ pc = "start"
    /\ Prologue(d, pr, overrun)
    /\ call' = Called(1, <<>>, <<>>)

\* a further call of JSON_parse, on the text d, while the document of the
\* call before it is still held
ParseAgain(d, pr, overrun) ==
    /\ pc = "done"
    /\ call.nr < MaxCalls
    /\ Prologue(d, pr, overrun)
    /\ call' = Called(call.nr + 1, buf,
                      IF d = buf THEN TreeOf(heap, heap.json[jn].root, MaxDepth) ELSE <<>>)

\* case TOK_MINUS, which falls through to case TOK_DIGIT
CaseNumber ==
    /\ InLoop
    /\ lookahead \in {TOK_MINUS, TOK_DIGIT}
    /\ LET neg == lookahead = TOK_MINUS
           cx0 == IF neg THEN advance(buf, pre, Cx) ELSE Cx
           m == IF neg THEN 1 ELSE minus
           r == parse_number(buf, ilp32, cx0)
           v == IF m # 0 THEN r.val * (-1) ELSE r.val
           h1 == [heap EXCEPT !.val[value].value = v, !.val[value].type = VALUE_NUMBER]
           a == add_value(h1, ndebug, parent, value)
       IN  /\ UNCHANGED <<envvars, node, parent, value, stack, stack_idx, jn, released>>
           /\ IF Failed(GETTING_VALUE)
              THEN /\ Stop("assert(GETTING_VALUE())", Cx, heap)
                   /\ minus' = minus /\ state' = state
              ELSE IF neg /\ Failed(isdigit(At(buf, pre, cx0.ptr)))
              THEN /\ Stop("assert(isdigit(*ptr))", cx0, heap)
                   /\ minus' = m /\ state' = state
              ELSE IF value = NULL
              THEN /\ Stop("segv", r.cx, heap)
                   /\ minus' = m /\ state' = state
              ELSE IF a.fail # ""
              THEN /\ Stop(a.fail, r.cx, h1)
                   /\ minus' = m /\ state' = state
              ELSE /\ Continue(r.cx, a.h)
                   /\ minus' = 0 /\ state' = TOGGLE_STATE

\* case TOK_DQUOTE: a member's string value, or a member's name
CaseDQuote ==
    /\ InLoop
    /\ lookahead = TOK_DQUOTE
    /\ UNCHANGED <<envvars, node, parent, stack, stack_idx, minus, jn, released>>
    /\ IF GETTING_VALUE
       THEN LET r == parse_charseq(buf, pre, ndebug, Cx)
                h1 == strdup(heap, r.charseq)
                h2 == [h1 EXCEPT !.val[value].value = Last(h1),
                                 !.val[value].type = VALUE_STRING]
                a == add_value(h2, ndebug, parent, value)
            IN  /\ value' = value
                /\ IF r.crash # ""
                   THEN Stop(r.crash, r.cx, heap) /\ state' = state
                   ELSE IF value = NULL
                   THEN Stop("segv", r.cx, h1) /\ state' = state
                   ELSE IF a.fail # ""
                   THEN Stop(a.fail, r.cx, h2) /\ state' = state
                   ELSE Continue(r.cx, a.h) /\ state' = TOGGLE_STATE
       ELSE LET h1 == new_value(heap)
                v == Last(h1)
                r == parse_charseq(buf, pre, ndebug, Cx)
                h2 == strdup(h1, r.charseq)
                cx1 == advance(buf, pre, r.cx)
                h3 == [h2 EXCEPT !.val[v].name = Last(h2)]
            IN  /\ value' = v
                /\ IF r.crash # ""
                   THEN Stop(r.crash, r.cx, h1) /\ state' = state
                   ELSE IF Failed(matches(cx1, TOK_COLON))
                   THEN Stop("assert(matches(TOK_COLON))", cx1, h2) /\ state' = state
                   ELSE Continue(cx1, h3) /\ state' = TOGGLE_STATE

\* case TOK_LBRACE: a nested object; P_PUSH stops on a full stack, and
\* without the assert it writes past the stack
CaseLBrace ==
    /\ InLoop
    /\ lookahead = TOK_LBRACE
    /\ UNCHANGED <<envvars, value, state, minus, jn, released>>
    /\ LET h1 == new_node(heap)
           n == Last(h1)
           h2 == [h1 EXCEPT !.val[value].value = n, !.val[value].type = VALUE_OBJECT]
           a == add_value(h2, ndebug, parent, value)
       IN  /\ node' = n
           /\ IF value = NULL
              THEN Stop("segv", Cx, h1) /\ UNCHANGED <<parent, stack, stack_idx>>
              ELSE IF a.fail # ""
              THEN Stop(a.fail, Cx, h2) /\ UNCHANGED <<parent, stack, stack_idx>>
              ELSE IF ~(stack_idx < STACK_MAX_SIZE)
              THEN /\ Stop(IF ndebug THEN "overflow" ELSE "assert(stack_idx < STACK_MAX_SIZE)",
                        Cx, a.h)
                   /\ stack_idx' = IF ndebug THEN stack_idx + 1 ELSE stack_idx
                   /\ UNCHANGED <<parent, stack>>
              ELSE /\ Continue(Cx, a.h)
                   /\ stack' = [stack EXCEPT ![stack_idx] = parent]
                   /\ stack_idx' = stack_idx + 1
                   /\ parent' = n

\* case TOK_RBRACE: P_POP stops on an empty stack, and without the assert it
\* reads in front of the stack
CaseRBrace ==
    /\ InLoop
    /\ lookahead = TOK_RBRACE
    /\ UNCHANGED <<envvars, node, value, state, stack, minus, jn, released>>
    /\ IF ~(stack_idx > 0)
       THEN /\ Stop(IF ndebug THEN "underflow" ELSE "assert(stack_idx > 0)", Cx, heap)
            /\ stack_idx' = IF ndebug THEN stack_idx - 1 ELSE stack_idx
            /\ parent' = parent
       ELSE /\ Continue(Cx, heap)
            /\ stack_idx' = stack_idx - 1
            /\ parent' = stack[stack_idx - 1]

\* case TOK_LBRACK after parse_array returned r
AfterArray(r, a) ==
    IF r.crash # "" THEN Stop(r.crash, r.cx, r.h)
    ELSE IF a.fail # "" THEN Stop(a.fail, r.cx, a.h)
    ELSE Continue(r.cx, a.h)

StoreArray(r) ==
    AfterArray(r, add_value([r.h EXCEPT !.val[value].value = r.arr], ndebug, parent, value))

\* case TOK_LBRACK: an array
CaseLBrack ==
    /\ InLoop
    /\ lookahead = TOK_LBRACK
    /\ UNCHANGED <<envvars, buildvars, released>>
    /\ IF value = NULL THEN Stop("segv", Cx, heap)
       ELSE StoreArray(parse_array(buf, pre, ndebug, ilp32, Cx,
                                   [heap EXCEPT !.val[value].type = VALUE_ARRAY]))

\* case TOK_CHARSEQ, which falls through to default: a bare word.  A word
\* that runs up to the end of the buffer is scanned on into the memory after
\* it: the scan faults there (tail = "crash") or stops somewhere in it.
CaseCharseq(tail) ==
    /\ InLoop
    /\ lookahead = TOK_CHARSEQ
    /\ spin < MaxSpin
    /\ UNCHANGED <<envvars, buildvars, released>>
    /\ LET r == parse_string_nodquotes(buf, Cx)
           h1 == strdup(heap, r.charseq)
           h2 == [h1 EXCEPT !.val[value].value = Last(h1),
                            !.val[value].type = string_type(r.charseq)]
       IN  IF r.cx.ptr > end
           THEN IF tail = "crash" THEN Stop("segv", r.cx, heap)
                ELSE IF value = NULL THEN Stop("segv", r.cx, h1)
                ELSE Continue(r.cx, h2)
           ELSE /\ tail = "stop"
                /\ IF value = NULL THEN Stop("segv", r.cx, h1)
                   ELSE Continue(r.cx, h2)

\* case TOK_COMMA and default: nothing but the advance()
CaseOther ==
    /\ InLoop
    /\ lookahead \notin {TOK_MINUS, TOK_DIGIT, TOK_DQUOTE, TOK_LBRACE, TOK_RBRACE,
                         TOK_LBRACK, TOK_CHARSEQ}
    /\ UNCHANGED <<envvars, buildvars, released>>
    /\ Continue(Cx, heap)

\* the while loop ends and JSON_parse returns the document
Return ==
    /\ pc = "loop"
    /\ ~(ptr < end)
    /\ pc' = "done"
    /\ UNCHANGED <<envvars, lexvars, buildvars, heap, released, spin, fatal>>

\* JSON_free(jn), called once on the document JSON_parse returned
CallFree ==
    /\ pc = "done"
    /\ LET r == Release(JSON_free(heap, jn), heap.live)
       IN  /\ heap' = [heap EXCEPT !.live = r.live]
           /\ released' = [twice |-> r.twice, stale |-> r.stale, wild |-> r.wild]
    /\ pc' = "freed"
    /\ UNCHANGED <<envvars, lexvars, buildvars, spin, fatal>>

Init ==
    /\ ndebug \in BOOLEAN
    /\ ilp32 \in BOOLEAN
    /\ pre = NUL
    /\ buf = <<>>
    /\ ptr = NULL /\ current = TOK_NONE /\ lookahead = TOK_NONE
    /\ node = NULL /\ parent = NULL /\ value = NULL
    /\ state = 0
    /\ stack = [i \in 0..(STACK_MAX_SIZE - 1) |-> NULL]
    /\ stack_idx = 0
    /\ minus = 0
    /\ jn = NULL
    /\ heap = EmptyHeap
    /\ oob = FALSE
    /\ released = NothingReleased
    /\ spin = 0
    /\ call = [nr |-> 0, doc |-> <<>>, tree |-> <<>>, state |-> 0, stack_idx |-> 0]
    /\ pc = "start" /\ fatal = ""

\* the program calls JSON_parse on a text
Call ==
    /\ pc = "start"
    /\ \E d \in Inputs : \E pr \in PreBytes(d) : \E overrun \in BOOLEAN :
           JSON_parse(d, pr, overrun)

Next ==
    \/ Call
    \/ \E d \in Again : \E pr \in PreBytes(d) : \E overrun \in BOOLEAN :
           ParseAgain(d, pr, overrun)
    \/ CaseNumber
    \/ CaseDQuote
    \/ CaseLBrace
    \/ CaseRBrace
    \/ CaseLBrack
    \/ \E tail \in {"crash", "stop"} : CaseCharseq(tail)
    \/ CaseOther
    \/ Return
    \/ CallFree

Spec == Init /\ [][Next]_vars

(* ------------------------------ the claims ----------------------------- *)
\* the well-formed documents among the inputs, all nested less deep than
\* the parent stack
WellFormed ==
    FlatDocs \cup ArrayDocs \cup ValueDocs
        \cup {NestedDoc(k, sp) : k \in {1, 2}, sp \in BOOLEAN}
        \cup {NestedThen(sp) : sp \in BOOLEAN}

Root == heap.json[jn].root
\* the values of node n, in order
ValuesOf(n) ==
    IF heap.node[n].values = NULL THEN <<>>
    ELSE SubSeq(heap.seq[heap.node[n].values], 1, heap.node[n].nr_values)
\* the text a name or a payload points at
TextOf(q) == IF q \in DOMAIN heap.text THEN heap.text[q] ELSE <<"?">>

\* C1: after JSON_parse and JSON_free of a well-formed document no allocation
\* is outstanding.
C1_NoOutstanding ==
    (pc = "freed" /\ buf \in WellFormed) => heap.live = {}

\* C2: JSON_free releases no block twice and reads no released block, and
\* it releases the name of every node exactly once, however many values the
\* node holds.
C2_ReleasedOnce ==
    pc = "freed" =>
        /\ released.twice = {}
        /\ released.stale = {}
        /\ ~released.wild
        /\ \A n \in DOMAIN heap.node :
               heap.node[n].name # NULL => heap.node[n].name \notin heap.live

\* the blocks parse_array returned: those stored as the payload of an Array
Returned ==
    {a \in DOMAIN heap.arr :
        \E v \in DOMAIN heap.val :
            heap.val[v].type = VALUE_ARRAY /\ heap.val[v].value = a}

\* entry o of a block is element i of the input, written as the text e
IsElement(o, i, e) ==
    /\ o.name # NULL
    /\ TextOf(o.name) = <<"#">> \o itoa(i)
    /\ IF e[1] = DQUOTE
       THEN o.type = VALUE_STRING /\ TextOf(o.value) = SubSeq(e, 2, Len(e) - 1)
       ELSE IF e = <<"7">> THEN o.type = VALUE_NUMBER /\ o.value = 7
       ELSE IF e = <<"-", "4", "2">> THEN o.type = VALUE_NUMBER /\ o.value = -42
       ELSE IF isdigit(e[1]) THEN o.type = VALUE_NUMBER
       ELSE o.type = string_type(e) /\ TextOf(o.value) = e

IsSentinel(o) == o.value = ARRAY_END_SENTINEL

\* block es holds the elements xs in order and then the sentinel
HoldsElements(es, xs) ==
    /\ Len(es) = Len(xs) + 1
    /\ \A i \in 1..Len(xs) : IsElement(es[i], i - 1, xs[i])
    /\ IsSentinel(es[Len(es)]) /\ es[Len(es)].name = NULL

\* C3: the block parse_array builds for a bracketed array of N scalars holds
\* the N elements in input order, element i named "#i" with the i-th value,
\* and then the sentinel at index N: nothing is overwritten by the sentinel
\* and nothing is added for a space or a comma.
C3_ArrayBlock ==
    \A xs \in ArrayElems :
        (buf \in {ArrayDoc(xs, TRUE), ArrayDoc(xs, FALSE), TightArrayDoc(xs)}) =>
            \A a \in Returned : HoldsElements(heap.arr[a], xs)

\* C4: a block parse_array returned ends with the sentinel, and no earlier
\* entry passes the end-of-block test of do_free_value_array.
C4_OneSentinel ==
    \A a \in Returned :
        /\ IsSentinel(heap.arr[a][Len(heap.arr[a])])
        /\ \A i \in 1..(Len(heap.arr[a]) - 1) : ~IsSentinel(heap.arr[a][i])

\* value v is a String named key with the payload txt
IsStringMember(v, key, txt) ==
    /\ v \in DOMAIN heap.val
    /\ heap.val[v].type = VALUE_STRING
    /\ TextOf(heap.val[v].name) = key
    /\ TextOf(heap.val[v].value) = txt

\* the parse of the input is over, one way or the other
Over == pc \in {"done", "fatal", "freed"}

\* C5: a flat object of string-valued members is parsed without a fatal stop
\* into one String value per member at the root, in input order, under the
\* member's key and with the member's text.
C5_FlatObject ==
    \A ms \in FlatMembers : \A sp \in BOOLEAN :
        (buf = FlatDoc(ms, sp) /\ Over) =>
            /\ pc # "fatal"
            /\ Len(ValuesOf(Root)) = Len(ms)
            /\ \A i \in 1..Len(ms) : IsStringMember(ValuesOf(Root)[i], ms[i][1], ms[i][2])

\* value v is an Object named key
IsObjectMember(v, key) ==
    /\ v \in DOMAIN heap.val
    /\ heap.val[v].type = VALUE_OBJECT
    /\ TextOf(heap.val[v].name) = key
    /\ heap.val[v].value \in DOMAIN heap.node

\* C6: the member "a" : { "a" : "x" } becomes an Object value named "a" whose
\* node holds exactly the String "a" = "x", and the member "b" : "y" after the
\* closing brace goes to the enclosing node.
C6_NestedObject ==
    \A sp \in BOOLEAN :
        (buf = NestedThen(sp) /\ Over) =>
            /\ pc # "fatal"
            /\ Len(ValuesOf(Root)) = 2
            /\ IsObjectMember(ValuesOf(Root)[1], <<"a">>)
            /\ LET inner == ValuesOf(heap.val[ValuesOf(Root)[1]].value)
               IN  Len(inner) = 1 /\ IsStringMember(inner[1], <<"a">>, <<"x">>)
            /\ IsStringMember(ValuesOf(Root)[2], <<"b">>, <<"y">>)

\* C7: the builder loop moves the cursor on: a turn that leaves it where it
\* was is made good by the next one, so that no MaxSpin turns in a row leave
\* the cursor in place and the loop reaches the end of the buffer.
C7_CursorAdvances == spin < MaxSpin

\* C8: the cursor stays inside [start, end] and no character outside
\* [start, end) is read by lex, parse_charseq, parse_string_nodquotes or
\* parse_number.
C8_InBounds == ~oob /\ (pc # "start" => ptr \in 1..end)

\* the object whose one member "a" has the value written v
ValueDoc(v, spaced) == Bracketed(LBRACE, <<Member(<<"a">>, v, spaced)>>, RBRACE, spaced)

\* C9: the value -42 becomes the Number -42, as the value of an object member
\* and as the element of an array, without a fatal stop.
C9_Negative ==
    /\ \A sp \in BOOLEAN :
          (buf = ValueDoc(<<"-", "4", "2">>, sp) /\ Over) =>
              /\ pc # "fatal"
              /\ Len(ValuesOf(Root)) = 1
              /\ heap.val[ValuesOf(Root)[1]].type = VALUE_NUMBER
              /\ heap.val[ValuesOf(Root)[1]].value = -42
    /\ (buf \in {ArrayDoc(<<<<"-", "4", "2">>>>, TRUE), ArrayDoc(<<<<"-", "4", "2">>>>, FALSE),
                 TightArrayDoc(<<<<"-", "4", "2">>>>)} /\ Over) =>
              /\ pc # "fatal"
              /\ Returned # {}
              /\ \A a \in Returned :
                     heap.arr[a][1].type = VALUE_NUMBER /\ heap.arr[a][1].value = -42

\* C10: stack_idx stays within 0..STACK_MAX_SIZE; objects nested
\* STACK_MAX_SIZE deep are parsed without a fatal stop, and objects nested one
\* deeper end in the failure of assert(stack_idx < STACK_MAX_SIZE).
C10_StackDepth ==
    /\ stack_idx \in 0..STACK_MAX_SIZE
    /\ \A sp \in BOOLEAN :
          /\ buf = NestedDoc(STACK_MAX_SIZE, sp) => pc # "fatal"
          /\ (buf = NestedDoc(STACK_MAX_SIZE + 1, sp) /\ Over) =>
                 (pc = "fatal" /\ fatal = "assert(stack_idx < STACK_MAX_SIZE)")

\* C11: an array with an element that opens with a bracket or a brace is
\* rejected: once parse_array has started on it, the parse has ended in
\* abort(), and no block was returned for it.
C11_NestingRejected ==
    (buf \in NestingDocs /\ heap.arr # <<>>) => (pc = "fatal" /\ fatal = "abort")

\* C12: a call of JSON_parse does not depend on the calls before it: after a
\* well-formed document its builder loop starts expecting a member name, with
\* an empty parent stack, and a well-formed document parsed a second time
\* gives the tree it gave the first time.
C12_CallsIndependent ==
    (call.nr = 2 /\ call.doc \in WellFormed) =>
        /\ call.state = 0 /\ call.stack_idx = 0
        /\ (buf = call.doc /\ Over) =>
               /\ pc # "fatal"
               /\ TreeOf(heap, Root, MaxDepth) = call.tree

\* C13: the mode flips once for every name and once for every value, whatever
\* the kind of the value: the builder expects a member name when it has just
\* entered an object, and when a well-formed document has been read to its end.
C13_ModeFlips ==
    call.nr = 1 =>
        /\ (pc = "loop" /\ current = TOK_LBRACE) => ~GETTING_VALUE
        /\ (pc = "done" /\ buf \in WellFormed) => ~GETTING_VALUE

\* the builder loop is about to process the token that starts at the comma
\* between two members of a flat object
AtComma ==
    /\ InLoop
    /\ buf \in FlatDocs
    /\ buf[ptr] = COMMA
    /\ lookahead \in {TOK_COMMA, TOK_CHARSEQ}

\* the Value records held by the value sequence of some node
Attached ==
    UNION {{heap.seq[heap.node[n].values][i] : i \in 1..heap.node[n].nr_values} :
              n \in {m \in DOMAIN heap.node : heap.node[m].values # NULL}}

\* C14: the turn of the builder loop that processes a comma leaves the mode,
\* the parent, the parent stack, the value sequence of every node and every
\* attached Value as they were.
C14_CommaFrame ==
    [][AtComma =>
          /\ state' = state /\ parent' = parent
          /\ stack' = stack /\ stack_idx' = stack_idx
          /\ heap'.node = heap.node /\ heap'.seq = heap.seq
          /\ \A v \in Attached \cap DOMAIN heap.val : heap'.val[v] = heap.val[v]]_vars

\* the places <<n, i>> of the value sequences that hold a Value record
Places ==
    {<<n, i>> \in (DOMAIN heap.node) \X (1..heap.n) :
        /\ heap.node[n].values # NULL
        /\ i <= heap.node[n].nr_values
        /\ heap.seq[heap.node[n].values][i] # NULL}
Held(pl) == heap.seq[heap.node[pl[1]].values][pl[2]]

\* C15: what a parse builds is a tree: no Value record is held at two places
\* of the value sequences, and no Node is the payload of two Object Values.
C15_IsTree ==
    call.nr = 1 =>
        /\ \A p1, p2 \in Places : Held(p1) = Held(p2) => p1 = p2
        /\ \A v, w \in DOMAIN heap.val :
               (/\ heap.val[v].type = VALUE_OBJECT /\ heap.val[w].type = VALUE_OBJECT
                /\ heap.val[v].value = heap.val[w].value) => v = w

\* C16: every Value record the builder allocated is attached by the time its
\* value has been consumed: when JSON_parse returns on a well-formed document,
\* every Value record is held by the value sequence of a node.
C16_AllAttached ==
    (call.nr = 1 /\ pc = "done" /\ buf \in WellFormed) => DOMAIN heap.val \subseteq Attached

\* the tag of the bare word w: Boolean for true and false, Null otherwise
TagOf(w) ==
    IF w \in {<<"t", "r", "u", "e">>, <<"f", "a", "l", "s", "e">>} THEN VALUE_BOOLEAN
    ELSE VALUE_NULL

\* C17: a bare word is stored as it is written, tagged Boolean when it is true
\* or false and Null otherwise, whether a space, a newline or the closing
\* brace follows it in a member, and the closing bracket or a comma in an array.
C17_BareWord ==
    \A w \in BareWords :
        /\ (/\ call.nr = 1 /\ pc = "done"
            /\ buf \in {ValueDoc(w, TRUE), LineValueDoc(w), TightValueDoc(w)}) =>
               \E v \in DOMAIN heap.val :
                   /\ TextOf(heap.val[v].name) = <<"a">>
                   /\ heap.val[v].type = TagOf(w)
                   /\ TextOf(heap.val[v].value) = w
        /\ (/\ call.nr = 1 /\ heap.arr # <<>>
            /\ buf \in {TightArrayDoc(<<w>>), TightArrayDoc(<<w, Q(<<"x">>)>>)}) =>
               /\ pc # "fatal"
               /\ \A a \in DOMAIN heap.arr :
                      /\ heap.arr[a][1].type = TagOf(w)
                      /\ TextOf(heap.arr[a][1].value) = w

\* the empty object followed by a newline or a space
TrailingDocs == {<<LBRACE, RBRACE, NL>>, <<LBRACE, RBRACE, SPACE>>}

\* C18: in a well-formed document, also one with a newline or a space after
\* the closing brace of the root, no closing brace is processed on an empty
\* parent stack, and the stack is empty when the parse ends.
C18_NoUnderflow ==
    (call.nr = 1 /\ buf \in WellFormed \cup TrailingDocs) =>
        /\ fatal \notin {"assert(stack_idx > 0)", "underflow"}
        /\ stack_idx >= 0
        /\ pc = "done" => stack_idx = 0

\* C19: lex skips every carriage return, newline and tab in front of a token:
\* the token it hands to the builder loop never starts at one of them; and it
\* returns no space token for a space that follows a carriage return or a
\* newline.
C19_ControlSkipped ==
    pc = "loop" =>
        /\ (lookahead \in {TOK_CHARSEQ, TOK_DIGIT} /\ ptr \in 1..Len(buf)) =>
               ~IS_CNTRLSPACE(buf[ptr])
        /\ (lookahead = TOK_SPACE /\ ptr \in 3..end) => ~IS_CRNL(buf[ptr - 2])

\* the value sequence of node n in heap h
SeqOf(h, n) == IF h.node[n].values = NULL THEN <<>> ELSE h.seq[h.node[n].values]

\* C20: nr_values of every node is the number of Value pointers its sequence
\* holds, and a step of the builder leaves the sequence of a node as it was or
\* appends one Value to it: it never shortens it nor changes what it held.
C20_Counted ==
    [][\A n \in DOMAIN heap'.node :
          /\ Len(SeqOf(heap', n)) = heap'.node[n].nr_values
          /\ n \in DOMAIN heap.node =>
                 /\ heap'.node[n].nr_values \in
                        {heap.node[n].nr_values, heap.node[n].nr_values + 1}
                 /\ SubSeq(SeqOf(heap', n), 1, heap.node[n].nr_values) = SeqOf(heap, n)]_vars

\* add_value has appended to a sequence that already held a Value
C20_Appended == \E n \in DOMAIN heap.node : heap.node[n].nr_values >= 2

====
